---- MODULE Spec2Model ----
(***************************************************************************)
(* Model of src/main.py: Runner.run (the orchestrator of one run),         *)
(* VideoProcessor.parse (the pipeline of one item) and                     *)
(* Translator.translate, together with the three things they talk to: the  *)
(* feed listing, the translation service and the webhook sink.             *)
(*                                                                         *)
(* Items are numbered 1..MaxItems, a larger number being a newer post; the *)
(* listing is delivered newest-first.  0 stands for the empty anchor (no   *)
(* checkpoint file "name", line 91).                                       *)
(***************************************************************************)
EXTENDS Integers, Sequences, FiniteSets, TLC

\* Number of posts in the feed listing.
MaxItems == 3

\* Total number of failures (of any call, over all runs) the environment
\* may inject: failures are transient, after the budget every call succeeds.
MaxFailures == 2

Items == 1..MaxItems

\* The fields of a child that run/parse read (lines 37-39, 54, 107):
\* stickied, is_video, and whether title is the empty string.
Kinds ==
    { [stickied |-> FALSE, is_video |-> TRUE,  title |-> "text"],
      [stickied |-> FALSE, is_video |-> TRUE,  title |-> ""],
      [stickied |-> TRUE,  is_video |-> TRUE,  title |-> "text"],
      [stickied |-> FALSE, is_video |-> FALSE, title |-> "text"],
      [stickied |-> TRUE,  is_video |-> FALSE, title |-> "text"] }

\* PipelineOutcome of the spec; the code only logs and returns.
Failed == {"DownloadFailed", "TranslationFailed", "PublishFailed"}

VARIABLES
    feed,         \* feed[i]: the fields of post i (fixed during a behaviour)
    pagination,   \* what ?before=<anchor> selects: "newer" or "older" posts
    deleteAfter,  \* config["video_processor"]["delete_after"], as a truth value
    cursor,       \* content of the checkpoint file "name" (0: absent)
    pc,           \* position of the process
    anchor,       \* Runner.run's local anchor: the cursor read at run start
    fetchResult,  \* how the page fetch of the current run ended
    children,     \* what is left of reversed(children)
    data,         \* the child parse is working on (0: none)
    files,        \* items whose media file <name>.mp4 is on disk
    calls,        \* <<item, stage>> calls made in the current run, in order
    outcome,      \* outcome[i]: PipelineOutcome of item i in the current run
    delivered,    \* items the sink confirmed (2xx) at least once, in any run
    successPrior, \* items whose pipeline reached Success in an earlier run
    skipped,      \* items that failed in the previous (completed) run while a newer one succeeded
    error,        \* the last failure of a pipeline call in the current run
    fetches,      \* page requests sent in the current run
    translation,  \* parse's local translation (what translate returned)
    sent,         \* messages the sink accepted in the current run, in order
    failsLeft     \* failures the environment may still inject

vars == <<feed, pagination, deleteAfter, cursor, pc, anchor, fetchResult,
          children, data, files, calls, outcome, delivered, successPrior,
          skipped, error, fetches, translation, sent, failsLeft>>

config == <<feed, pagination, deleteAfter>>
history == <<delivered, successPrior, skipped>>
log == <<calls, outcome, error>>
io == <<fetches, translation, sent>>

----------------------------------------------------------------------------
\* Pure helpers

Max(S) == CHOOSE x \in S : \A y \in S : y <= x

RECURSIVE NewestFirst(_)
\* The items of S as the listing delivers them: newest first.
NewestFirst(S) ==
    IF S = {} THEN <<>>
    ELSE LET m == Max(S) IN <<m>> \o NewestFirst(S \ {m})

RECURSIVE Reverse(_)
Reverse(s) == IF s = <<>> THEN <<>> ELSE Reverse(Tail(s)) \o <<Head(s)>>

\* Mutant: the page is walked in the order delivered (newest first).
ReversedNot(s) == s

\* reversed(children), line 105.
Reversed(s) == Reverse(s)

Range(s) == { s[k] : k \in 1..Len(s) }

\* The page ?before=<a> returns (lines 95-103).  With the empty anchor the
\* most recent page; otherwise the listing's items on one side of the anchor:
\* "newer" is what precedes the anchor in a newest-first listing, "older" is
\* the FeedFetcher contract of the specification.
PageItems(a) ==
    IF a = 0 THEN Items
    ELSE IF pagination = "newer" THEN { i \in Items : i > a }
    ELSE { i \in Items : i < a }

\* response.json()["data"]["children"], line 103: the page, newest first.
Page(a) == NewestFirst(PageItems(a))

\* Mutant: the filter lets pinned posts through.
IsSkippedNot(i) == ~ feed[i].is_video

\* Mutant: `and` in place of `or` at line 107.
IsSkippedAnd(i) == feed[i].stickied /\ ~ feed[i].is_video

\* Line 107: the child is skipped.
IsSkipped(i) == feed[i].stickied \/ ~ feed[i].is_video

Eligible(i) == ~ IsSkipped(i)

\* One piece of a message line; every piece has the same shape.
Tok(t, i) == [t |-> t, of |-> i]

\* Line 56, 23: the translated_text the service returns for the title of i.
Translated(i) == Tok("translated_text", i)

\* Mutant: the source URL line is left out of the message.
ContentNot(i, tr) ==
    IF feed[i].title = "" THEN <<>>
    ELSE << <<Tok("title", i)>>,
            <<Tok("TRANSLATION_WARNING", 0), Tok(": ", 0), tr>> >>

\* Lines 61-73: the lines of the message text.  Without a title no content
\* is given to the webhook; otherwise the f-string of line 72,
\* "{original}\n{TRANSLATION_WARNING}: {translation}\n<{url}>".
Content(i, tr) ==
    IF feed[i].title = "" THEN <<>>
    ELSE << <<Tok("title", i)>>,
            <<Tok("TRANSLATION_WARNING", 0), Tok(": ", 0), tr>>,
            <<Tok("<", 0), Tok("url_overridden_by_dest", i), Tok(">", 0)>> >>

\* Lines 62-67, 70-76: the webhook message, with the one file added to it.
Message(i, tr) ==
    [item |-> i, content |-> Content(i, tr), attachments |-> <<Tok(".mp4", i)>>]

NoOutcome == [i \in Items |-> "none"]

RunEnded == pc \in {"done", "crashed"}

\* The items of the current run whose pipeline reached Success.
Succeeded == { i \in Items : outcome[i] = "Success" }

Called(i, stage) == <<i, stage>> \in Range(calls)

----------------------------------------------------------------------------
Init ==
    /\ feed \in [Items -> Kinds]
    /\ pagination \in {"newer", "older"}
    /\ deleteAfter \in BOOLEAN
    /\ cursor = 0
    /\ pc = "idle"
    /\ anchor = 0
    /\ fetchResult = "none"
    /\ children = <<>>
    /\ data = 0
    /\ files = {}
    /\ calls = <<>>
    /\ outcome = NoOutcome
    /\ delivered = {}
    /\ successPrior = {}
    /\ skipped = {}
    /\ error = "none"
    /\ fetches = 0
    /\ translation = "none"
    /\ sent = <<>>
    /\ failsLeft = MaxFailures

\* An injected failure uses up one unit of the budget.
Fail == failsLeft > 0 /\ failsLeft' = failsLeft - 1

----------------------------------------------------------------------------
\* Runner.run

\* Lines 91-95: the process is started (again) and reads the checkpoint.
StartRun ==
    /\ pc \in {"idle", "done", "crashed"}
    /\ anchor' = cursor
    /\ pc' = "fetch"
    /\ fetchResult' = "none"
    /\ children' = <<>>
    /\ data' = 0
    /\ calls' = <<>>
    /\ outcome' = NoOutcome
    /\ error' = "none"
    /\ fetches' = 0
    /\ translation' = "none"
    /\ sent' = <<>>
    /\ successPrior' = successPrior \cup Succeeded
    /\ skipped' = { a \in Items : /\ pc = "done"
                                  /\ outcome[a] \in Failed
                                  /\ \E b \in Succeeded : b > a }
    /\ UNCHANGED <<config, cursor, files, delivered, failsLeft>>

\* Lines 98-103: the page arrives and parses.
FetchOk ==
    /\ pc = "fetch"
    /\ fetchResult' = "ok"
    /\ children' = Reversed(Page(anchor))
    /\ pc' = "loop"
    /\ fetches' = fetches + 1
    /\ UNCHANGED <<translation, sent>>
    /\ UNCHANGED <<config, cursor, anchor, data, files, log,
                   history, failsLeft>>

\* The run ends at line 111 (or dies) with the fetch failure `kind`.
FetchEnds(kind, to) ==
    /\ Fail
    /\ fetchResult' = kind
    /\ pc' = to
    /\ fetches' = fetches + 1
    /\ UNCHANGED <<translation, sent>>
    /\ UNCHANGED <<config, cursor, anchor, children, data, files, log, history>>

\* Mutant: raise_for_status() is missing, the error body is walked as a page.
FetchHttpErrorNot ==
    /\ pc = "fetch"
    /\ Fail
    /\ fetchResult' = "http"
    /\ children' = Reversed(Page(anchor))
    /\ pc' = "loop"
    /\ fetches' = fetches + 1
    /\ UNCHANGED <<translation, sent>>
    /\ UNCHANGED <<config, cursor, anchor, data, files, log, history>>

\* Line 98: requests.get raises (ConnectionError, Timeout): caught, line 110.
FetchTransportError ==
    /\ pc = "fetch"
    /\ FetchEnds("transport", "done")

\* Line 102: raise_for_status raises HTTPError: caught, line 110.
FetchHttpError ==
    /\ pc = "fetch"
    /\ FetchEnds("http", "done")

\* Line 103: the body is not JSON.  response.json() raises
\* requests.exceptions.JSONDecodeError, a RequestException (caught, line 110),
\* or with an older requests a plain ValueError, which line 110 lets through.
FetchNotJson ==
    /\ pc = "fetch"
    /\ \E to \in {"done", "crashed"} : FetchEnds("notjson", to)

\* Line 103: the JSON lacks data/children: KeyError (TypeError), not caught.
FetchBadShape ==
    /\ pc = "fetch"
    /\ FetchEnds("shape", "crashed")

\* Line 105: the page is exhausted, run returns.
LoopEnd ==
    /\ pc = "loop"
    /\ children = <<>>
    /\ pc' = "done"
    /\ data' = 0
    /\ UNCHANGED io
    /\ UNCHANGED <<config, cursor, anchor, fetchResult, children, files, log, history, failsLeft>>

\* Lines 106-108: a pinned or non-video child is skipped.
LoopSkip ==
    /\ pc = "loop"
    /\ children # <<>>
    /\ IsSkipped(Head(children))
    /\ children' = Tail(children)
    /\ UNCHANGED io
    /\ UNCHANGED <<config, cursor, pc, anchor, fetchResult, data, files, log, history, failsLeft>>

\* Line 109: the child is passed to VideoProcessor.parse.
LoopParse ==
    /\ pc = "loop"
    /\ children # <<>>
    /\ ~ IsSkipped(Head(children))
    /\ data' = Head(children)
    /\ children' = Tail(children)
    /\ pc' = "download"
    /\ UNCHANGED io
    /\ UNCHANGED <<config, cursor, anchor, fetchResult, files, log,
                   history, failsLeft>>

----------------------------------------------------------------------------
\* VideoProcessor.parse

\* The call of `stage` for the current item is logged; it fails with `err`
\* ("none": it succeeds), the item ends with outcome `o` ("none": no outcome
\* yet) and the process moves to `to`.
Step(stage, err, o, to) ==
    /\ calls' = Append(calls, <<data, stage>>)
    /\ error' = IF err = "none" THEN error ELSE err
    /\ outcome' = IF o = "none" THEN outcome ELSE [outcome EXCEPT ![data] = o]
    /\ pc' = to

\* Lines 47-49: the download succeeds, <name>.mp4 exists.
DownloadOk ==
    /\ pc = "download"
    /\ Step("download", "none", "none", "translate")
    /\ files' = files \cup {data}
    /\ UNCHANGED io
    /\ UNCHANGED <<config, cursor, anchor, fetchResult, children, data,
                   history, failsLeft>>

\* Mutant: the return of line 52 is missing.
DownloadFailNot ==
    /\ pc = "download"
    /\ Fail
    /\ Step("download", "download", "DownloadFailed", "translate")
    /\ UNCHANGED io
    /\ UNCHANGED <<config, cursor, anchor, fetchResult, children, data, files,
                   history>>

\* Lines 50-52: the download raises; logged, parse returns.  A partly
\* written file may stay behind.
DownloadFail ==
    /\ pc = "download"
    /\ Fail
    /\ Step("download", "download", "DownloadFailed", "loop")
    /\ files' \in {files, files \cup {data}}
    /\ UNCHANGED io
    /\ UNCHANGED <<config, cursor, anchor, fetchResult, children, data,
                   history>>

\* Lines 54-57, 18-23: status 200 and a translated_text that is not null.
TranslateOk ==
    /\ pc = "translate"
    /\ Step("translate", "none", "none", "publish")
    /\ translation' = Translated(data)
    /\ UNCHANGED <<fetches, sent>>
    /\ UNCHANGED <<config, cursor, anchor, fetchResult, children, data, files,
                   history, failsLeft>>

\* Lines 22-25, 57-59: a status other than 200, or a body without
\* translated_text (or with null): translate returns None, parse returns.
TranslateNone ==
    /\ pc = "translate"
    /\ Fail
    /\ \E err \in {"status", "null"} :
          Step("translate", err, "TranslationFailed", "loop")
    /\ UNCHANGED io
    /\ UNCHANGED <<config, cursor, anchor, fetchResult, children, data, files,
                   history>>

\* Line 20: requests.get raises.  Nothing in parse catches it: it leaves
\* the loop of run and is caught at line 110, which ends the run.
TranslateTransportError ==
    /\ pc = "translate"
    /\ Fail
    /\ Step("translate", "transport", "TranslationFailed", "done")
    /\ UNCHANGED io
    /\ UNCHANGED <<config, cursor, anchor, fetchResult, children, data, files,
                   history>>

\* Line 23: status 200 with a body that is not JSON: response.json() raises
\* a RequestException (caught at line 110) or a ValueError (not caught).
TranslateUnparsable ==
    /\ pc = "translate"
    /\ Fail
    /\ \E to \in {"done", "crashed"} : Step("translate", "unparsable", "TranslationFailed", to)
    /\ UNCHANGED io
    /\ UNCHANGED <<config, cursor, anchor, fetchResult, children, data, files,
                   history>>

\* Lines 61-76: the sink answers 2xx.
PublishOk ==
    /\ pc = "publish"
    /\ Step("publish", "none", "none", "save")
    /\ delivered' = delivered \cup {data}
    /\ sent' = Append(sent, Message(data, translation))
    /\ UNCHANGED <<fetches, translation>>
    /\ UNCHANGED <<config, cursor, anchor, fetchResult, children, data, files,
                   successPrior, skipped, failsLeft>>

\* Lines 67, 76: the sink answers with a non-success status.  execute()
\* logs it and returns the response, which parse does not look at: parse
\* goes on to line 78.
PublishRejected ==
    /\ pc = "publish"
    /\ Fail
    /\ Step("publish", "rejected", "PublishFailed", "save")
    /\ UNCHANGED io
    /\ UNCHANGED <<config, cursor, anchor, fetchResult, children, data, files,
                   history>>

\* Lines 67, 76: the POST raises; as for the translation, the run ends.
PublishTransportError ==
    /\ pc = "publish"
    /\ Fail
    /\ Step("publish", "transport", "PublishFailed", "done")
    /\ UNCHANGED io
    /\ UNCHANGED <<config, cursor, anchor, fetchResult, children, data, files,
                   history>>

\* Mutant: the checkpoint file is created once and never overwritten.
SaveCursorNot ==
    /\ pc = "save"
    /\ cursor' = IF cursor = 0 THEN data ELSE cursor
    /\ Step("save", "none", IF outcome[data] = "none" THEN "Success" ELSE "none",
            "delete")
    /\ UNCHANGED io
    /\ UNCHANGED <<config, anchor, fetchResult, children, data, files,
                   history, failsLeft>>

\* Lines 78-79: the process is killed after open("name", "w+") has
\* truncated the file and before the buffered write reaches it at close:
\* the file is left empty, which the next run reads as the empty anchor.
SaveKilled ==
    /\ pc = "save"
    /\ Fail
    /\ cursor' = 0
    /\ error' = "killed"
    /\ pc' = "crashed"
    /\ UNCHANGED io
    /\ UNCHANGED <<config, anchor, fetchResult, children, data, files, calls,
                   outcome, history>>

\* Lines 78-79: the checkpoint file is overwritten with the item's name.
\* The pipeline reached Success if the sink had confirmed the publish.
SaveCursor ==
    /\ pc = "save"
    /\ cursor' = data
    /\ Step("save", "none", IF outcome[data] = "none" THEN "Success" ELSE "none",
            "delete")
    /\ UNCHANGED io
    /\ UNCHANGED <<config, anchor, fetchResult, children, data, files,
                   history, failsLeft>>

\* Line 81: DELETE_AFTER is falsy, parse returns.
KeepFile ==
    /\ pc = "delete"
    /\ ~ deleteAfter
    /\ pc' = "loop"
    /\ UNCHANGED io
    /\ UNCHANGED <<config, cursor, anchor, fetchResult, children, data, files,
                   log, history, failsLeft>>

\* Lines 81-82: the media file is removed, parse returns.
DeleteOk ==
    /\ pc = "delete"
    /\ deleteAfter
    /\ Step("delete", "none", "none", "loop")
    /\ files' = files \ {data}
    /\ UNCHANGED io
    /\ UNCHANGED <<config, cursor, anchor, fetchResult, children, data,
                   history, failsLeft>>

\* Line 82: os.remove raises OSError, which nothing catches.
DeleteFail ==
    /\ pc = "delete"
    /\ deleteAfter
    /\ Fail
    /\ Step("delete", "remove", "none", "crashed")
    /\ UNCHANGED io
    /\ UNCHANGED <<config, cursor, anchor, fetchResult, children, data, files,
                   history>>

----------------------------------------------------------------------------
Next ==
    \/ StartRun
    \/ FetchOk
    \/ FetchTransportError
    \/ FetchHttpError
    \/ FetchNotJson
    \/ FetchBadShape
    \/ LoopEnd
    \/ LoopSkip
    \/ LoopParse
    \/ DownloadOk
    \/ DownloadFail
    \/ TranslateOk
    \/ TranslateNone
    \/ TranslateTransportError
    \/ TranslateUnparsable
    \/ PublishOk
    \/ PublishRejected
    \/ PublishTransportError
    \/ SaveCursor
    \/ KeepFile
    \/ DeleteOk
    \/ DeleteFail

Spec == Init /\ [][Next]_vars

\* The process is started again and again (a scheduled invocation), every
\* call it makes returns or raises, and every step of a started process runs.
FairSpec == Spec /\ WF_vars(Next)

\* The runs of a process that may also be killed while it saves the cursor.
NextCrash == Next \/ SaveKilled

CrashSpec == Init /\ [][NextCrash]_vars

----------------------------------------------------------------------------
\* Properties

\* The eligible items of the page of the current run that come after item i
\* in processing order (oldest first).
LaterEligible(i) == { j \in PageItems(anchor) : j > i /\ Eligible(j) }

\* C1: in every reachable state the persisted cursor is the value it had at
\* run start or the identifier of an item whose publish the sink confirmed.
C1_CursorOnlyAfterConfirmedPublish ==
    cursor = anchor \/ cursor \in delivered

\* C2: when a run has ended, the cursor is unchanged from run start or is
\* the identifier of the last item (oldest-to-newest) that reached Success.
C2_CursorAtRunEnd ==
    RunEnded =>
        \/ cursor = anchor
        \/ Succeeded # {} /\ cursor = Max(Succeeded)

\* C3: if the pipeline of an eligible item fails at any stage, the run does
\* not crash and every later eligible item of the page is still passed to
\* the pipeline before the run ends.
C3_ItemFailureDoesNotStopRun ==
    \A i \in Items :
        outcome[i] \in Failed =>
            /\ pc # "crashed"
            /\ RunEnded => \A j \in LaterEligible(i) : Called(j, "download")

\* C4: when the page fetch fails by a transport failure or a non-success
\* HTTP status, the run ends with no pipeline call made and the cursor as it
\* was at run start.
C4_FetchFailureEndsRun ==
    fetchResult \in {"transport", "http"} =>
        /\ pc = "done"
        /\ calls = <<>>
        /\ cursor = anchor

C4_Witness ==
    /\ fetchResult \in {"transport", "http"}
    /\ pc = "done"
    /\ anchor # 0

\* C5: every kind of fetch failure, a response of the wrong shape included,
\* ends the run cleanly instead of terminating it with an unhandled error.
C5_EveryFetchFailureNonFatal ==
    fetchResult \in {"transport", "http", "notjson", "shape"} => pc = "done"

C7_FailedOlderItemPresentedAgain ==
    /\ RunEnded /\ (\E a \in Items : outcome[a] \in Failed
                                    /\ \E b \in Succeeded : b > a)
           => cursor = Max(Succeeded)
    /\ fetchResult = "ok" => skipped \subseteq PageItems(anchor)

\* C8: under repeated runs, all failures being transient, every eligible
\* item of the feed is eventually published to the sink.
C8_EveryEligibleItemPublished ==
    <>(\A i \in Items : Eligible(i) => i \in delivered)

\* C9: if the download of an item fails, then in that run the translation
\* client and the publisher are never called for it and the cursor is not
\* written for it.
C9_DownloadFailureShortCircuits ==
    \A i \in Items :
        outcome[i] = "DownloadFailed" =>
            /\ ~ Called(i, "translate")
            /\ ~ Called(i, "publish")
            /\ ~ Called(i, "save")
            /\ cursor = i => anchor = i

C9_Witness ==
    /\ pc = "done"
    /\ \E i \in Items : outcome[i] = "DownloadFailed" /\ LaterEligible(i) # {}
    /\ Succeeded # {}

\* C10: translation is attempted for every item whose download succeeded
\* (empty title or not), and a translation failure by a non-2xx status, an
\* unparsable body or a missing/null translated_text aborts exactly that
\* item: no publish and no cursor write for it, and the run goes on with the
\* later items.
C10_TranslationFailureAbortsOnlyItem ==
    /\ \A i \in Items :
           Called(i, "download") /\ outcome[i] # "DownloadFailed"
               => Called(i, "translate") \/ (pc = "translate" /\ data = i)
    /\ \A i \in Items :
           /\ outcome[i] = "TranslationFailed"
           /\ ~ (data = i /\ error = "transport")
           => /\ ~ Called(i, "publish")
              /\ ~ Called(i, "save")
              /\ pc # "crashed"
              /\ RunEnded => \A j \in LaterEligible(i) : Called(j, "download")

\* The pipeline of item i has exited in the current run.
Exited(i) ==
    /\ Called(i, "download")
    /\ data = i => pc \in {"loop", "done", "crashed"}

\* C11: when deletion is configured, the media file of an item whose
\* download succeeded is absent once its pipeline has exited, whether by
\* Success, TranslationFailed or PublishFailed; when retention is configured
\* the pipeline never deletes it.
C11_MediaFileGoneAtExit ==
    /\ deleteAfter =>
           \A i \in Items :
               Exited(i) /\ outcome[i] # "DownloadFailed" => i \notin files
    /\ ~ deleteAfter =>
           \A i \in Items :
               Called(i, "download") /\ outcome[i] # "DownloadFailed"
                   => i \in files /\ ~ Called(i, "delete")

\* C12: if deleting the media file fails after the item was published and
\* checkpointed, the item stays Success, the cursor stays at the item and the
\* run goes on to the next eligible item instead of crashing.
C12_DeleteFailureOnlyLogged ==
    \A i \in Items :
        error = "remove" /\ data = i /\ i \in delivered =>
            /\ outcome[i] = "Success"
            /\ cursor = i
            /\ pc # "crashed"
            /\ RunEnded => \A j \in LaterEligible(i) : Called(j, "download")

\* The page of the current run holds no item that is video and not pinned.
NoEligibleInPage ==
    \A i \in PageItems(anchor) : feed[i].stickied \/ ~ feed[i].is_video

\* C13: a run whose fetched page has no eligible item leaves the cursor
\* unchanged and makes no download, translate or publish call.
C13_EmptyRunIdempotent ==
    fetchResult = "ok" /\ NoEligibleInPage =>
        /\ calls = <<>>
        /\ sent = <<>>
        /\ cursor = anchor
        /\ pc \in {"loop", "done"}

C13_Witness ==
    /\ fetchResult = "ok"
    /\ NoEligibleInPage
    /\ pc = "done"
    /\ \E i \in PageItems(anchor) : feed[i].stickied /\ feed[i].is_video

\* The messages the sink accepted for item i in the current run.
SentFor(i) == SelectSeq(sent, LAMBDA m : m.item = i)

\* C14: starting with no cursor, if every eligible item of the page succeeds
\* at every stage, each eligible item is published exactly once in that run
\* and the cursor at the end of the run is the newest eligible item.
C14_FirstRunAllSucceed ==
    pc = "done" /\ anchor = 0 /\ fetchResult = "ok" /\ error = "none" =>
        LET eligible == { i \in Items : ~ feed[i].stickied /\ feed[i].is_video }
        IN  /\ \A i \in eligible : Len(SentFor(i)) = 1
            /\ Len(sent) = Cardinality(eligible)
            /\ eligible # {} => cursor = Max(eligible)

C14_Witness ==
    /\ pc = "done" /\ anchor = 0 /\ fetchResult = "ok" /\ error = "none"
    /\ Len(sent) >= 2
    /\ \E i \in Items : feed[i].stickied

\* C15: a child the loop has taken from the page was passed to the pipeline
\* if and only if it is not pinned and is a video.
C15_FilterCorrect ==
    fetchResult = "ok" =>
        LET taken == PageItems(anchor) \ Range(children)
            passed == { calls[k][1] : k \in 1..Len(calls) }
                          \cup (IF pc = "download" THEN {data} ELSE {})
        IN  \A i \in taken :
                i \in passed <=> (~ feed[i].stickied /\ feed[i].is_video)

C15_Witness ==
    /\ pc = "done"
    /\ fetchResult = "ok"
    /\ \E i, j, k \in PageItems(anchor) :
           /\ feed[i].stickied /\ feed[i].is_video
           /\ ~ feed[j].stickied /\ ~ feed[j].is_video
           /\ ~ feed[k].stickied /\ feed[k].is_video /\ Called(k, "download")

\* C16: every message delivered has exactly one attachment, and its text is
\* nothing when the title is empty and otherwise exactly three lines: the
\* title; the warning label, ': ' and the translated text; the source URL in
\* angle brackets.
C16_MessageText ==
    \A n \in 1..Len(sent) :
        LET m == sent[n] IN
        /\ Len(m.attachments) = 1
        /\ feed[m.item].title = "" => m.content = <<>>
        /\ feed[m.item].title # "" =>
               /\ Len(m.content) = 3
               /\ m.content[1] = <<Tok("title", m.item)>>
               /\ m.content[2] = <<Tok("TRANSLATION_WARNING", 0), Tok(": ", 0),
                                   Tok("translated_text", m.item)>>
               /\ m.content[3] = <<Tok("<", 0),
                                   Tok("url_overridden_by_dest", m.item),
                                   Tok(">", 0)>>

C16_Witness ==
    \E n, k \in 1..Len(sent) :
        feed[sent[n].item].title = "" /\ feed[sent[k].item].title # ""

\* C17: a run sends exactly one page request, before any pipeline call, and
\* the pipeline calls of a run are grouped by item, older items first: each
\* call is for the item of the call before it or for a newer one, so cursor
\* writes go from older to newer identifiers.
C17_OnePageOldestFirst ==
    /\ fetches <= 1
    /\ pc \notin {"idle", "fetch"} => fetches = 1
    /\ \A k \in 1..(Len(calls) - 1) : calls[k][1] <= calls[k + 1][1]
    /\ pc \in {"download", "translate", "publish", "save", "delete"}
           /\ calls # <<>> => calls[Len(calls)][1] <= data

C17_Witness ==
    /\ pc = "done"
    /\ \E k, l \in 1..Len(calls) :
           /\ k < l
           /\ calls[k] = <<1, "save">>
           /\ calls[l][2] = "save" /\ calls[l][1] > 1

\* The stages of the pipeline, in order.
Stages == <<"download", "translate", "publish", "save", "delete">>

\* The stages called for item i in the current run, in order.
StagesOf(i) ==
    LET mine == SelectSeq(calls, LAMBDA c : c[1] = i)
    IN  [k \in 1..Len(mine) |-> mine[k][2]]

\* C18: for each item the stages download, translate, publish, cursor write
\* and delete occur in that order, each at most once and each only after the
\* previous one succeeded.
C18_StagesInOrder ==
    \A i \in Items :
        /\ Len(StagesOf(i)) <= Len(Stages)
        /\ StagesOf(i) = SubSeq(Stages, 1, Len(StagesOf(i)))
        /\ Called(i, "translate") => outcome[i] # "DownloadFailed"
        /\ Called(i, "publish") => outcome[i] # "TranslationFailed"
        /\ Called(i, "save") => outcome[i] # "PublishFailed"

\* What the checkpoint file held before the save now under way: the last
\* identifier written in this run, or the cursor read at run start.
PrevCursor ==
    LET saves == SelectSeq(calls, LAMBDA c : c[2] = "save")
    IN  IF saves = <<>> THEN anchor ELSE saves[Len(saves)][1]

\* C19: if the process dies during the cursor save, the checkpoint file
\* holds the complete previous cursor or the complete new one.
C19_SaveAtomic ==
    error = "killed" => cursor \in {PrevCursor, data}

====
